---- MODULE Spec2Model ----
(***************************************************************************)
(* A model of glibc_version_header_gen.py: the Version value type, the     *)
(* patch table of apply_patches, the build cache of get_glibc_binaries,    *)
(* the symbol extraction of extract_versions_from_installed_folder, the    *)
(* header synthesis of generate_header_string and the orchestration of     *)
(* main.  Symbol names, version tokens, export lines, git tags, file names *)
(* and header lines are strings, as in the program.                        *)
(***************************************************************************)
EXTENDS Integers, Sequences, FiniteSets, TLC

VARIABLES
    \* ---- get_glibc_binaries / apply_patches ----
    bpc,            \* position inside get_glibc_binaries
    bversion,       \* its argument
    glibcDir,       \* the git work tree basePath/glibc
    builds,         \* basePath/builds/<tag>/{build,install}, per tag
    pidx,           \* position of apply_patches in patches_table
    bret,           \* the returned install directory
    blog,           \* history: the build steps completed by the current call
    cached,         \* history: the current call found build_succeeded
    markerLog,      \* history: per tag, blog of the call that wrote the marker
    calls,          \* number of calls made so far (driver of SpecBuild)
    \* ---- main ----
    mpc,            \* position inside main
    requested_versions,
    idx,            \* loop index of the two for loops of main
    syms,           \* main's dict Version -> symbol table
    allsyms,        \* main's allsyms
    version_headers,\* the files of basePath/version_headers (name -> lines)
    passed,         \* history: the (syms, missingFuncs) handed to the synthesizer
    \* ---- extract_versions_from_installed_folder on its own ----
    xpc, xfolder, xversion, xdata, xresult

bvars == <<bpc, bversion, glibcDir, builds, pidx, bret, blog, cached, markerLog, calls>>
mvars == <<mpc, requested_versions, idx, syms, allsyms, version_headers, passed>>
xvars == <<xpc, xfolder, xversion, xdata, xresult>>
vars == <<bvars, mvars, xvars>>

\* ------------------------------------------------------------------------
\* class Version
\* ------------------------------------------------------------------------

\* Version.__init__: two or three integer arguments, patch defaults to 0.
Version(args) ==
    IF Len(args) > 3 \/ Len(args) < 2
    THEN [invalid |-> args]
    ELSE [major |-> args[1], minor |-> args[2],
          patch |-> IF Len(args) = 3 THEN args[3] ELSE 0]

\* Python's comparison of two tuples of integers of the same length: the first
\* position where they differ decides.
RECURSIVE tuple_lt(_, _)
tuple_lt(s, t) ==
    IF s = <<>> \/ t = <<>>
    THEN Len(s) < Len(t)
    ELSE IF Head(s) # Head(t) THEN Head(s) < Head(t) ELSE tuple_lt(Tail(s), Tail(t))

\* A plausible slip: <= implemented with the strict comparison.
Version_le_strict(self, other) ==
    tuple_lt(<<self.major, self.minor, self.patch>>, <<other.major, other.minor, other.patch>>)

\* Version.__le__
Version_le(self, other) ==
    \/ <<self.major, self.minor, self.patch>> = <<other.major, other.minor, other.patch>>
    \/ tuple_lt(<<self.major, self.minor, self.patch>>, <<other.major, other.minor, other.patch>>)

\* The chained comparison  low <= version <= high  of lines 36, 163, 198, 200.
Between(low, version, high) == Version_le(low, version) /\ Version_le(version, high)

\* str() of a non-negative int.
DigitChars == "0123456789"
RECURSIVE int_str(_)
int_str(n) ==
    IF n < 10
    THEN SubSeq(DigitChars, n + 1, n + 1)
    ELSE int_str(n \div 10) \o SubSeq(DigitChars, (n % 10) + 1, (n % 10) + 1)

\* Version.version_as_str
version_as_str(self) ==
    LET s == int_str(self.major) \o "." \o int_str(self.minor)
    IN  IF self.patch # 0 THEN s \o "." \o int_str(self.patch) ELSE s

\* Version.__str__: the git tag and the name of the build directory.
Version_str(self) == "glibc-" \o version_as_str(self)

\* SUPPORTED_VERSIONS
SUPPORTED_VERSIONS ==
    << Version(<<2, 5>>), Version(<<2, 5, 1>>), Version(<<2, 6>>), Version(<<2, 6, 1>>),
       Version(<<2, 7>>), Version(<<2, 8>>), Version(<<2, 9>>), Version(<<2, 10, 2>>),
       Version(<<2, 11, 3>>), Version(<<2, 12, 2>>), Version(<<2, 13>>), Version(<<2, 14>>),
       Version(<<2, 14, 1>>), Version(<<2, 15>>), Version(<<2, 16>>), Version(<<2, 17>>),
       Version(<<2, 18>>), Version(<<2, 19>>), Version(<<2, 20>>), Version(<<2, 21>>),
       Version(<<2, 22>>), Version(<<2, 23>>), Version(<<2, 24>>), Version(<<2, 25>>),
       Version(<<2, 26>>), Version(<<2, 27>>) >>

\* ------------------------------------------------------------------------
\* apply_patches
\* ------------------------------------------------------------------------

\* patches_table, in the order of the dict literal (the order .items() yields).
patches_table ==
    << [patch |-> "extern_inline_addition.diff",      lo |-> Version(<<2, 5>>),  hi |-> Version(<<2, 5, 1>>)],
       [patch |-> "fix_obstack_compat.diff",          lo |-> Version(<<2, 5>>),  hi |-> Version(<<2, 17>>)],
       [patch |-> "no-pattern-rule-mixing.diff",      lo |-> Version(<<2, 5>>),  hi |-> Version(<<2, 10, 2>>)],
       [patch |-> "fix_linker_failure.diff",          lo |-> Version(<<2, 5>>),  hi |-> Version(<<2, 9>>)],
       [patch |-> "remove_ctors_dtors.diff",          lo |-> Version(<<2, 5>>),  hi |-> Version(<<2, 12, 2>>)],
       [patch |-> "fix_bad_version_checks_2.5.diff",  lo |-> Version(<<2, 5>>),  hi |-> Version(<<2, 6, 1>>)],
       [patch |-> "fix_bad_version_checks_2.9.diff",  lo |-> Version(<<2, 7>>),  hi |-> Version(<<2, 9>>)],
       [patch |-> "fix_bad_version_checks_2.10.diff", lo |-> Version(<<2, 10>>), hi |-> Version(<<2, 12, 2>>)],
       [patch |-> "fix_bad_version_checks.diff",      lo |-> Version(<<2, 13>>), hi |-> Version(<<2, 18>>)],
       [patch |-> "hvsep-remove.diff",                lo |-> Version(<<2, 16>>), hi |-> Version(<<2, 16>>)],
       [patch |-> "cvs-common-symbols.diff",          lo |-> Version(<<2, 23>>), hi |-> Version(<<2, 25>>)] >>

\* The condition of line 163 for the table entry at position i.
patch_matches(i, version) == Between(patches_table[i].lo, version, patches_table[i].hi)

\* git apply: the patch edits tracked files and may add new ones.
git_apply(tree, patch) ==
    [tree EXCEPT !.modified = @ \cup {patch}, !.untracked = @ \cup {patch}]

\* One iteration of the for loop of apply_patches whose patch is out of range.
PatchSkip ==
    /\ bpc = "patch"
    /\ pidx <= Len(patches_table)
    /\ ~patch_matches(pidx, bversion)
    /\ pidx' = pidx + 1
    /\ UNCHANGED <<bpc, bversion, glibcDir, builds, bret, blog, cached, markerLog, calls>>
    /\ UNCHANGED <<mvars, xvars>>

\* One iteration whose patch is in range and whose git apply succeeds.
PatchApply ==
    /\ bpc = "patch"
    /\ pidx <= Len(patches_table)
    /\ patch_matches(pidx, bversion)
    /\ glibcDir' = git_apply(glibcDir, patches_table[pidx].patch)
    /\ pidx' = pidx + 1
    /\ UNCHANGED <<bpc, bversion, builds, bret, blog, cached, markerLog, calls>>
    /\ UNCHANGED <<mvars, xvars>>

\* One iteration whose git apply exits non-zero: check_call raises.
PatchFails ==
    /\ bpc = "patch"
    /\ pidx <= Len(patches_table)
    /\ patch_matches(pidx, bversion)
    /\ bpc' = "raised"
    /\ UNCHANGED <<bversion, glibcDir, builds, pidx, bret, blog, cached, markerLog, calls>>
    /\ UNCHANGED <<mvars, xvars>>

\* apply_patches returns to get_glibc_binaries.
PatchDone ==
    /\ bpc = "patch"
    /\ pidx > Len(patches_table)
    /\ bpc' = "builddir"
    /\ blog' = Append(blog, "patch")
    /\ UNCHANGED <<bversion, glibcDir, builds, pidx, bret, cached, markerLog, calls>>
    /\ UNCHANGED <<mvars, xvars>>

\* ------------------------------------------------------------------------
\* String helpers of the Python runtime used by the program
\* ------------------------------------------------------------------------

\* str.startswith
startswith(str, item) == Len(item) <= Len(str) /\ SubSeq(str, 1, Len(item)) = item

\* str.find(sep, from i): the first position >= i where sep occurs, 0 if none.
RECURSIVE str_find(_, _, _)
str_find(s, sep, i) ==
    IF i + Len(sep) - 1 > Len(s) THEN 0
    ELSE IF SubSeq(s, i, i + Len(sep) - 1) = sep THEN i
    ELSE str_find(s, sep, i + 1)

\* str.split(sep)
RECURSIVE str_split(_, _)
str_split(s, sep) ==
    LET k == str_find(s, sep, 1)
    IN  IF k = 0 THEN <<s>>
        ELSE <<SubSeq(s, 1, k - 1)>> \o str_split(SubSeq(s, k + Len(sep), Len(s)), sep)

\* f.split("/")[-1]
basename(f) == LET parts == str_split(f, "/") IN parts[Len(parts)]

\* ------------------------------------------------------------------------
\* extract_versions_from_installed_folder
\* ------------------------------------------------------------------------
\* An installed folder is given by what find and readelf|grep print for it: a
\* sequence of entries [file, line], an entry per default-versioned export
\* line of a .so file.  (grep exits non-zero on an object without such a line,
\* which check_output turns into an exception before any merge: every object
\* that reaches the merge has at least one line.)

\* Line 14: the .so files, each once, in the order find lists them.
RECURSIVE find_so(_)
find_so(folder) ==
    IF folder = <<>> THEN <<>>
    ELSE LET rest == find_so(SubSeq(folder, 1, Len(folder) - 1))
             f == folder[Len(folder)].file
         IN  IF \E i \in 1..Len(rest) : rest[i] = f THEN rest ELSE Append(rest, f)

\* Lines 33-34: the export lines of one object.
RECURSIVE readelf_exports(_, _)
readelf_exports(folder, f) ==
    IF folder = <<>> THEN <<>>
    ELSE LET rest == readelf_exports(Tail(folder), f)
         IN  IF Head(folder).file = f THEN <<Head(folder).line>> \o rest ELSE rest

\* Line 26
linker_scripts == {"libc.so", "libm.so", "libpthread.so"}

\* Line 41
librt_moved_to_libc ==
    {"clock_getcpuclockid", "clock_nanosleep", "clock_getres", "clock_settime", "clock_gettime"}

\* Lines 16-20
starts_with_any(str, set) == \E item \in set : startswith(str, item)

\* A plausible slip: the filter is applied to every object, not only to librt.
exclusion_filter_every_object(f, file_data, version) ==
    IF Between(Version(<<2, 17>>), version, Version(<<2, 27>>))
    THEN SelectSeq(file_data, LAMBDA x : ~starts_with_any(x, librt_moved_to_libc))
    ELSE file_data

\* Lines 36-41: the exclusion filter applied to one object's lines.
exclusion_filter(f, file_data, version) ==
    IF /\ Between(Version(<<2, 17>>), version, Version(<<2, 27>>))
       /\ startswith(basename(f), "librt")
    THEN SelectSeq(file_data, LAMBDA x : ~starts_with_any(x, librt_moved_to_libc))
    ELSE file_data

\* Lines 22-43: the loop over the files, data += file_data.
RECURSIVE collect_data(_, _, _)
collect_data(folder, files, version) ==
    IF files = <<>> THEN <<>>
    ELSE LET f == Head(files)
             rest == collect_data(folder, Tail(files), version)
         IN  IF basename(f) \in linker_scripts THEN rest
             ELSE exclusion_filter(f, readelf_exports(folder, f), version) \o rest

\* A plausible slip: any repeated name is reported, whatever its version.
MergeLine_any_repeat(st, line) ==
    LET parts == str_split(line, "@@")
        sym == parts[1]
        ver == parts[2]
    IN  IF sym \notin DOMAIN st.syms
        THEN [st EXCEPT !.syms = (sym :> ver) @@ st.syms]
        ELSE [st EXCEPT !.dupes = Append(st.dupes, line)]

\* A plausible slip: only the first conflict is kept.
MergeLine_first_only(st, line) ==
    LET parts == str_split(line, "@@")
        sym == parts[1]
        ver == parts[2]
    IN  IF sym \notin DOMAIN st.syms
        THEN [st EXCEPT !.syms = (sym :> ver) @@ st.syms]
        ELSE IF st.syms[sym] # ver /\ st.dupes = <<>>
        THEN [st EXCEPT !.dupes = Append(st.dupes, line)]
        ELSE st

\* Lines 50-55: the body of the merge loop; st is (syms, dupes).
MergeLine(st, line) ==
    LET parts == str_split(line, "@@")
        sym == parts[1]
        ver == parts[2]
    IN  IF sym \notin DOMAIN st.syms
        THEN [st EXCEPT !.syms = (sym :> ver) @@ st.syms]
        ELSE IF st.syms[sym] # ver
        THEN [st EXCEPT !.dupes = Append(st.dupes, line)]
        ELSE st

\* Lines 46-55: the merge loop over data.
RECURSIVE merge_loop(_, _)
merge_loop(st, data) ==
    IF data = <<>> THEN st ELSE merge_loop(MergeLine(st, Head(data)), Tail(data))

\* Lines 46-60: raise with the list dupes, or return syms.
merge(data) ==
    LET st == merge_loop([syms |-> <<>>, dupes |-> <<>>], data)
    IN  IF st.dupes # <<>>
        THEN [raised |-> TRUE, dupes |-> st.dupes, syms |-> <<>>]
        ELSE [raised |-> FALSE, dupes |-> <<>>, syms |-> st.syms]

\* Lines 13-60
extract_versions_from_installed_folder(folder, version) ==
    merge(collect_data(folder, find_so(folder), version))

\* ---- the extraction on its own: inputs drawn from bounded sets ----

MaxEntries == 3

\* Two objects that are read, and the linker script libc.so, which is not.
XFiles == {"lib/libc-2.17.so", "lib/librt-2.17.so"}

XLines ==
    {"clock_gettime@@GLIBC_2.17", "clock_gettime@@GLIBC_2.2.5",
     "clock_gettime64@@GLIBC_2.17", "clock_adjtime@@GLIBC_2.14"}

XVersions == {Version(<<2, 16>>), Version(<<2, 17>>), Version(<<2, 27>>), Version(<<2, 27, 1>>)}

XEntries ==
    [file : XFiles, line : XLines]
    \cup {[file |-> "lib/libc.so", line |-> "clock_gettime@@GLIBC_2.2.5"]}

XFolders == UNION {[1..n -> XEntries] : n \in 0..MaxEntries}

XInit ==
    /\ xpc = "read"
    /\ xfolder \in XFolders
    /\ xversion \in XVersions
    /\ xdata = <<>>
    /\ xresult = [raised |-> FALSE, dupes |-> <<>>, syms |-> <<>>]

\* Lines 14-43
XRead ==
    /\ xpc = "read"
    /\ xdata' = collect_data(xfolder, find_so(xfolder), xversion)
    /\ xpc' = "merge"
    /\ UNCHANGED <<xfolder, xversion, xresult>>
    /\ UNCHANGED <<bvars, mvars>>

\* Lines 46-60
XMerge ==
    /\ xpc = "merge"
    /\ xresult' = merge(xdata)
    /\ xpc' = "done"
    /\ UNCHANGED <<xfolder, xversion, xdata>>
    /\ UNCHANGED <<bvars, mvars>>

\* ------------------------------------------------------------------------
\* get_glibc_binaries
\* ------------------------------------------------------------------------

\* The versions built in the specifications Spec and SpecBuild: 2.16 takes
\* three patches and lies below the librt window, 2.20 takes none and lies in it.
BVersions == {Version(<<2, 16>>), Version(<<2, 20>>)}

\* Line 175 (relative to basePath)
installDirOf(version) == "builds/" \o Version_str(version) \o "/install"

\* The source a build is made from: the checked-out tag, the patches in the
\* work tree and the environment of configure.
NoSrc == [head |-> "", patches |-> {}, env |-> [CC |-> "", CFLAGS |-> "", LDFLAGS |-> ""]]

\* builds/<tag> before anything was built.
NoBuild ==
    [buildDir |-> "absent", buildSrc |-> NoSrc,
     installDir |-> "absent", installSrc |-> NoSrc, installFresh |-> FALSE,
     folder |-> <<>>, marker |-> FALSE]

\* Lines 196-201
build_env(version) ==
    [CC |-> "gcc",
     CFLAGS |-> IF Between(Version(<<2, 5>>), version, Version(<<2, 16>>))
                THEN "-U_FORTIFY_SOURCE -O2 -fno-stack-protector" ELSE "",
     LDFLAGS |-> IF Between(Version(<<2, 5>>), version, Version(<<2, 21>>))
                 THEN "-no-pie" ELSE ""]

\* A plausible slip: the reset is left out.
git_reset_skipped(tree) == tree

\* Line 181: git reset --hard HEAD restores the tracked files.
git_reset_hard(tree) == [tree EXCEPT !.modified = {}]

\* Line 182: git clean -dxf removes the untracked files.
git_clean(tree) == [tree EXCEPT !.untracked = {}]

\* Line 184: git checkout <tag>; local changes, if any, are carried along.
git_checkout(tree, version) == [tree EXCEPT !.head = Version_str(version)]

\* What configure reads: the work tree and the environment.
source_of(tree, version) ==
    [head |-> tree.head, patches |-> tree.modified \cup tree.untracked, env |-> build_env(version)]

\* Lines 192-194: rmtree and makedirs of installDir (the marker lives in it).
recreate_install(b) ==
    [b EXCEPT !.installDir = "empty", !.installSrc = NoSrc, !.installFresh = FALSE,
              !.folder = <<>>, !.marker = FALSE]

\* The entry of a call: line 173-175.
Enter(version) ==
    /\ bversion' = version
    /\ bpc' = "clone"
    /\ pidx' = 1
    /\ bret' = ""
    /\ blog' = <<>>
    /\ cached' = FALSE

\* Lines 177-178: git clone when there is no work tree yet.
Clone ==
    /\ bpc = "clone"
    /\ ~glibcDir.exists
    /\ glibcDir' = [exists |-> TRUE, head |-> "master", modified |-> {}, untracked |-> {}]
    /\ bpc' = "check"
    /\ blog' = Append(blog, "clone")
    /\ UNCHANGED <<bversion, builds, pidx, bret, cached, markerLog, calls>>
    /\ UNCHANGED <<mvars, xvars>>

\* Line 178 raising: git removes what it cloned so far.
CloneFails ==
    /\ bpc = "clone"
    /\ ~glibcDir.exists
    /\ bpc' = "raised"
    /\ UNCHANGED <<bversion, glibcDir, builds, pidx, bret, blog, cached, markerLog, calls>>
    /\ UNCHANGED <<mvars, xvars>>

\* Line 177 when the work tree exists.
CloneSkip ==
    /\ bpc = "clone"
    /\ glibcDir.exists
    /\ bpc' = "check"
    /\ UNCHANGED <<bversion, glibcDir, builds, pidx, bret, blog, cached, markerLog, calls>>
    /\ UNCHANGED <<mvars, xvars>>

\* Line 180: build_succeeded exists, nothing is built.
MarkerFound ==
    /\ bpc = "check"
    /\ builds[Version_str(bversion)].marker
    /\ bpc' = "return"
    /\ cached' = TRUE
    /\ UNCHANGED <<bversion, glibcDir, builds, pidx, bret, blog, markerLog, calls>>
    /\ UNCHANGED <<mvars, xvars>>

\* Line 180: no marker, the build starts.
MarkerMissing ==
    /\ bpc = "check"
    /\ ~builds[Version_str(bversion)].marker
    /\ bpc' = "reset"
    /\ UNCHANGED <<bversion, glibcDir, builds, pidx, bret, blog, cached, markerLog, calls>>
    /\ UNCHANGED <<mvars, xvars>>

\* Line 181
Reset ==
    /\ bpc = "reset"
    /\ glibcDir' = git_reset_hard(glibcDir)
    /\ bpc' = "clean"
    /\ blog' = Append(blog, "reset")
    /\ UNCHANGED <<bversion, builds, pidx, bret, cached, markerLog, calls>>
    /\ UNCHANGED <<mvars, xvars>>

\* Line 182
Clean ==
    /\ bpc = "clean"
    /\ glibcDir' = git_clean(glibcDir)
    /\ bpc' = "checkout"
    /\ blog' = Append(blog, "clean")
    /\ UNCHANGED <<bversion, builds, pidx, bret, cached, markerLog, calls>>
    /\ UNCHANGED <<mvars, xvars>>

\* Line 184, then the call of apply_patches of line 186.
Checkout ==
    /\ bpc = "checkout"
    /\ glibcDir' = git_checkout(glibcDir, bversion)
    /\ bpc' = "patch"
    /\ pidx' = 1
    /\ blog' = Append(blog, "checkout")
    /\ UNCHANGED <<bversion, builds, bret, cached, markerLog, calls>>
    /\ UNCHANGED <<mvars, xvars>>

\* Lines 181, 182, 184 raising: check_call of a git command that exits non-zero.
GitFails ==
    /\ bpc \in {"reset", "clean", "checkout"}
    /\ bpc' = "raised"
    /\ UNCHANGED <<bversion, glibcDir, builds, pidx, bret, blog, cached, markerLog, calls>>
    /\ UNCHANGED <<mvars, xvars>>

\* Lines 188-190: rmtree and makedirs of buildDir.
BuildDir ==
    /\ bpc = "builddir"
    /\ builds' = [builds EXCEPT ![Version_str(bversion)].buildDir = "empty",
                                ![Version_str(bversion)].buildSrc = NoSrc]
    /\ bpc' = "installdir"
    /\ blog' = Append(blog, "builddir")
    /\ UNCHANGED <<bversion, glibcDir, pidx, bret, cached, markerLog, calls>>
    /\ UNCHANGED <<mvars, xvars>>

\* Lines 192-194
InstallDir ==
    /\ bpc = "installdir"
    /\ builds' = [builds EXCEPT ![Version_str(bversion)] = recreate_install(@)]
    /\ bpc' = "configure"
    /\ blog' = Append(blog, "installdir")
    /\ UNCHANGED <<bversion, glibcDir, pidx, bret, cached, markerLog, calls>>
    /\ UNCHANGED <<mvars, xvars>>

\* Line 205
Configure ==
    /\ bpc = "configure"
    /\ builds' = [builds EXCEPT ![Version_str(bversion)].buildDir = "configured",
                                ![Version_str(bversion)].buildSrc = source_of(glibcDir, bversion)]
    /\ bpc' = "make"
    /\ blog' = Append(blog, "configure")
    /\ UNCHANGED <<bversion, glibcDir, pidx, bret, cached, markerLog, calls>>
    /\ UNCHANGED <<mvars, xvars>>

\* Line 206
Make ==
    /\ bpc = "make"
    /\ builds' = [builds EXCEPT ![Version_str(bversion)].buildDir = "made"]
    /\ bpc' = "install"
    /\ blog' = Append(blog, "make")
    /\ UNCHANGED <<bversion, glibcDir, pidx, bret, cached, markerLog, calls>>
    /\ UNCHANGED <<mvars, xvars>>

\* Lines 205, 206 raising: the build directory is left half done.
BuildFails ==
    /\ bpc \in {"configure", "make"}
    /\ builds' = [builds EXCEPT ![Version_str(bversion)].buildDir = "partial"]
    /\ bpc' = "raised"
    /\ UNCHANGED <<bversion, glibcDir, pidx, bret, blog, cached, markerLog, calls>>
    /\ UNCHANGED <<mvars, xvars>>

\* Line 207 raising: some files are installed, some are not.
MakeInstallFails ==
    /\ bpc = "install"
    /\ builds' = [builds EXCEPT ![Version_str(bversion)].installDir = "partial"]
    /\ bpc' = "raised"
    /\ UNCHANGED <<bversion, glibcDir, pidx, bret, blog, cached, markerLog, calls>>
    /\ UNCHANGED <<mvars, xvars>>

\* Lines 209-210: the marker is created.
WriteMarker ==
    /\ bpc = "marker"
    /\ builds' = [builds EXCEPT ![Version_str(bversion)].marker = TRUE]
    /\ markerLog' = [markerLog EXCEPT ![Version_str(bversion)] = Append(blog, "marker")]
    /\ blog' = Append(blog, "marker")
    /\ bpc' = "return"
    /\ UNCHANGED <<bversion, glibcDir, pidx, bret, cached, calls>>
    /\ UNCHANGED <<mvars, xvars>>

\* Line 212
Return ==
    /\ bpc = "return"
    /\ bret' = installDirOf(bversion)
    /\ bpc' = "returned"
    /\ UNCHANGED <<bversion, glibcDir, builds, pidx, blog, cached, markerLog, calls>>
    /\ UNCHANGED <<mvars, xvars>>

\* The installed folders a successful make install may produce, as listings.
\* FolderC has clock_gettime in libc and, at another version, in librt.
FolderA ==
    << [file |-> "lib/libc-2.x.so", line |-> "read@@GLIBC_2.2.5"],
       [file |-> "lib/libc-2.x.so", line |-> "pthread_once@@GLIBC_2.2.5"],
       [file |-> "lib/libc-2.x.so", line |-> "pthread_cond_signal@@GLIBC_2.3.2"],
       [file |-> "lib/libc.so", line |-> "read@@GLIBC_2.0"] >>

FolderB ==
    << [file |-> "lib/libpthread-2.x.so", line |-> "pthread_join@@GLIBC_2.2.5"],
       [file |-> "lib/libc-2.x.so", line |-> "write@@GLIBC_2.2.5"],
       [file |-> "lib/libc-2.x.so", line |-> "read@@GLIBC_2.2.5"],
       [file |-> "lib/libc-2.x.so", line |-> "pthread_self@@GLIBC_2.2.5"] >>

FolderC ==
    << [file |-> "lib/libc-2.x.so", line |-> "clock_gettime@@GLIBC_2.17"],
       [file |-> "lib/librt-2.x.so", line |-> "clock_gettime@@GLIBC_2.2.5"],
       [file |-> "lib/librt-2.x.so", line |-> "timer_create@@GLIBC_2.3.3"],
       [file |-> "lib/librt.so", line |-> "timer_create@@GLIBC_2.3.3"] >>

InstallFolders == {FolderA, FolderB, FolderC}

\* Line 207: make install fills the install directory.
MakeInstall ==
    /\ bpc = "install"
    /\ \E folder \in InstallFolders :
         builds' = [builds EXCEPT
            ![Version_str(bversion)].installDir = "installed",
            ![Version_str(bversion)].installSrc = builds[Version_str(bversion)].buildSrc,
            ![Version_str(bversion)].installFresh = (builds[Version_str(bversion)].installDir = "empty"),
            ![Version_str(bversion)].folder = folder]
    /\ bpc' = "marker"
    /\ blog' = Append(blog, "install")
    /\ UNCHANGED <<bversion, glibcDir, pidx, bret, cached, markerLog, calls>>
    /\ UNCHANGED <<mvars, xvars>>

\* ------------------------------------------------------------------------
\* generate_header_string
\* ------------------------------------------------------------------------

\* Lines 63-99
pthread_funcs_in_libc_so ==
    {"pthread_attr_destroy", "pthread_attr_init", "pthread_attr_getdetachstate",
     "pthread_attr_setdetachstate", "pthread_attr_getinheritsched",
     "pthread_attr_setinheritsched", "pthread_attr_getschedparam",
     "pthread_attr_setschedparam", "pthread_attr_getschedpolicy",
     "pthread_attr_setschedpolicy", "pthread_attr_getscope", "pthread_attr_setscope",
     "pthread_condattr_destroy", "pthread_condattr_init", "pthread_cond_broadcast",
     "pthread_cond_destroy", "pthread_cond_init", "pthread_cond_signalpthread_cond_wait",
     "pthread_cond_timedwait", "pthread_equal", "pthread_exit", "pthread_getschedparam",
     "pthread_setschedparam", "pthread_mutex_destroy", "pthread_mutex_init",
     "pthread_mutex_lock", "pthread_mutex_unlock", "pthread_self",
     "pthread_setcancelstate", "pthread_setcanceltype", "pthread_attr_init",
     "__register_atfork", "pthread_cond_init pthread_cond_destroy",
     "pthread_cond_wait pthread_cond_signal", "pthread_cond_broadcast pthread_cond_timedwait"}

\* Lines 101-107
pthread_symbols_used_as_weak_in_libgcc ==
    {"pthread_setspecific", "__pthread_key_create", "pthread_getspecific",
     "pthread_key_create", "pthread_once"}

\* Lines 109-119
pthread_symbols_used_as_weak_in_libstdcpp ==
    {"pthread_setspecific", "pthread_key_delete", "__pthread_key_create", "pthread_once",
     "pthread_key_create", "pthread_getspecific", "pthread_join", "pthread_detach",
     "pthread_create"}

\* The characters of symbol names in the order of their code points, which is
\* the order sorted() compares strings by.
CodePointOrder == "0123456789ABCDEFGHIJKLMNOPQRSTUVWXYZ_abcdefghijklmnopqrstuvwxyz"

ord(c) == CHOOSE i \in 1..Len(CodePointOrder) : SubSeq(CodePointOrder, i, i) = c

\* Python's < on strings.
RECURSIVE str_lt(_, _)
str_lt(a, b) ==
    IF a = "" \/ b = "" THEN Len(a) < Len(b)
    ELSE IF SubSeq(a, 1, 1) # SubSeq(b, 1, 1)
    THEN ord(SubSeq(a, 1, 1)) < ord(SubSeq(b, 1, 1))
    ELSE str_lt(SubSeq(a, 2, Len(a)), SubSeq(b, 2, Len(b)))

\* sorted() of a set of strings.
RECURSIVE sorted(_)
sorted(S) ==
    IF S = {} THEN <<>>
    ELSE LET m == CHOOSE x \in S : \A y \in S \ {x} : str_lt(x, y)
         IN  <<m>> \o sorted(S \ {m})

\* A list element holding "\n" is several lines of the joined text: an element
\* is modelled as the sequence of its lines, and wrapping adds a line before
\* and a line after.
wrap(open, element) == <<open>> \o element \o <<"#endif">>

\* A plausible slip: the multithreading guard follows the first set only.
in_any_pthread_set_libc_only(sym) == sym \in pthread_funcs_in_libc_so

\* The condition of line 129.
in_any_pthread_set(sym) ==
    \/ sym \in pthread_funcs_in_libc_so
    \/ sym \in pthread_symbols_used_as_weak_in_libstdcpp
    \/ sym \in pthread_symbols_used_as_weak_in_libgcc

\* Lines 127-136: the list element appended for one symbol of the table.
symbol_element(sym, ver) ==
    LET line0 == << "__asm__(\".symver " \o sym \o "," \o sym \o "@" \o ver \o "\");" >>
        line1 == IF in_any_pthread_set(sym) THEN wrap("#ifdef _REENTRANT", line0) ELSE line0
        line2 == IF sym \in pthread_symbols_used_as_weak_in_libgcc
                 THEN wrap("#ifndef IN_LIBGCC2", line1) ELSE line1
        line3 == IF sym \in pthread_symbols_used_as_weak_in_libstdcpp
                 THEN wrap("#ifndef _GLIBCXX_SHARED", line2) ELSE line2
    IN  line3

\* Line 139: the list element appended for one missing symbol.
missing_element(sym) ==
    << "__asm__(\".symver " \o sym \o "," \o sym
       \o "@GLIBC_WRAP_ERROR_SYMBOL_NOT_PRESENT_IN_REQUESTED_VERSION\");" >>

\* "\n".join of a list of elements: the lines of the text, in order.
RECURSIVE join_lines(_)
join_lines(strings) ==
    IF strings = <<>> THEN <<>> ELSE Head(strings) \o join_lines(Tail(strings))

\* Lines 62-144; the result is the text as the sequence of its lines (the last,
\* empty, line is the text's final newline).
generate_header_string(table, missingFuncs) ==
    LET keys == sorted(DOMAIN table)
        miss == sorted(missingFuncs)
        strings ==
            << <<"#if !defined(SET_GLIBC_LINK_VERSIONS_HEADER) && !defined(__ASSEMBLER__)">>,
               <<"#define SET_GLIBC_LINK_VERSIONS_HEADER">> >>
            \o [i \in 1..Len(keys) |-> symbol_element(keys[i], table[keys[i]])]
            \o [i \in 1..Len(miss) |-> missing_element(miss[i])]
            \o << <<"#endif">>, <<"">> >>
    IN  join_lines(strings)

\* ------------------------------------------------------------------------
\* main
\* ------------------------------------------------------------------------

\* The longest list of requested versions drawn.
MaxRequested == 2

\* requested_versions of lines 308-312: the versions given on the command line.
RequestedLists == UNION {[1..n -> BVersions] : n \in 1..MaxRequested}

\* Line 333: the name of a header file in version_headers.
header_name(version) == "force_link_glibc_" \o version_as_str(version) \o ".h"

\* version_headers as an earlier run may have left it.
NoHeaders == [exists |-> FALSE, files |-> <<>>]

EarlierHeaders ==
    [exists |-> TRUE,
     files |-> [n \in {header_name(v) : v \in BVersions} |-> <<"earlier run">>]]

\* Line 306: check_have_required_programs finds every program.
CheckPrograms ==
    /\ mpc = "start"
    /\ mpc' = "rmtree"
    /\ UNCHANGED <<requested_versions, idx, syms, allsyms, version_headers, passed>>
    /\ UNCHANGED <<bvars, xvars>>

\* Line 225: a program is missing.
CheckProgramsFails ==
    /\ mpc = "start"
    /\ mpc' = "aborted: missing programs"
    /\ UNCHANGED <<requested_versions, idx, syms, allsyms, version_headers, passed>>
    /\ UNCHANGED <<bvars, xvars>>

\* A plausible slip: the output directory of an earlier run is kept.
rmtree_headers_kept(dir) == dir

\* Lines 315-316: shutil.rmtree of version_headers, if it exists.
rmtree_headers(dir) == IF dir.exists THEN NoHeaders ELSE dir

\* Lines 314-318
RemoveHeaders ==
    /\ mpc = "rmtree"
    /\ version_headers' = rmtree_headers(version_headers)
    /\ syms' = <<>>
    /\ idx' = 1
    /\ mpc' = "provision"
    /\ UNCHANGED <<requested_versions, allsyms, passed>>
    /\ UNCHANGED <<bvars, xvars>>

\* Line 321: the call of get_glibc_binaries.
Provision ==
    /\ mpc = "provision"
    /\ idx <= Len(requested_versions)
    /\ Enter(requested_versions[idx])
    /\ mpc' = "building"
    /\ UNCHANGED <<glibcDir, builds, markerLog, calls>>
    /\ UNCHANGED <<requested_versions, idx, syms, allsyms, version_headers, passed>>
    /\ UNCHANGED xvars

\* Line 321 raising: the exception leaves main.
ProvisionRaises ==
    /\ mpc = "building"
    /\ bpc = "raised"
    /\ mpc' = "aborted: provisioning"
    /\ UNCHANGED <<requested_versions, idx, syms, allsyms, version_headers, passed>>
    /\ UNCHANGED <<bvars, xvars>>

\* The listing of the folder at a returned path.
folder_at(path) ==
    builds[CHOOSE t \in DOMAIN builds : "builds/" \o t \o "/install" = path].folder

\* Line 322: the extraction returns a table.
Extract ==
    /\ mpc = "building"
    /\ bpc = "returned"
    /\ LET version == requested_versions[idx]
           r == extract_versions_from_installed_folder(folder_at(bret), version)
       IN  /\ ~r.raised
           /\ syms' = (version :> r.syms) @@ syms
    /\ idx' = idx + 1
    /\ mpc' = "provision"
    /\ bpc' = "idle"
    /\ UNCHANGED <<bversion, glibcDir, builds, pidx, bret, blog, cached, markerLog, calls>>
    /\ UNCHANGED <<requested_versions, allsyms, version_headers, passed>>
    /\ UNCHANGED xvars

\* Line 322 raising (line 58): the exception leaves main.
ExtractRaises ==
    /\ mpc = "building"
    /\ bpc = "returned"
    /\ extract_versions_from_installed_folder(folder_at(bret), requested_versions[idx]).raised
    /\ mpc' = "aborted: symbol conflict"
    /\ bpc' = "idle"
    /\ UNCHANGED <<bversion, glibcDir, builds, pidx, bret, blog, cached, markerLog, calls>>
    /\ UNCHANGED <<requested_versions, idx, syms, allsyms, version_headers, passed>>
    /\ UNCHANGED xvars

\* A plausible slip: the first requested version is taken as the base.
all_symbols_of_first(tables) == DOMAIN tables[requested_versions[1]]

\* Line 324: set.union(set(), *syms.values()); iterating a dict yields its keys.
all_symbols(tables) == UNION {DOMAIN tables[v] : v \in DOMAIN tables}

\* Line 324
Union ==
    /\ mpc = "provision"
    /\ idx > Len(requested_versions)
    /\ allsyms' = all_symbols(syms)
    /\ idx' = 1
    /\ mpc' = "write"
    /\ UNCHANGED <<requested_versions, syms, version_headers, passed>>
    /\ UNCHANGED <<bvars, xvars>>

\* A plausible slip: the version's own symbols are not taken out.
missing_funcs_all(all, table) == all

\* Line 327
missing_funcs(all, table) == all \ DOMAIN table

\* A plausible slip: the file is created and its text never reaches it.
write_file_empty(dir, name, text) ==
    [exists |-> TRUE, files |-> (name :> <<>>) @@ dir.files]

\* Lines 330-334: makedirs if needed, then the with block creates (or
\* truncates) the file and writes the text.
write_file(dir, name, text) ==
    [exists |-> TRUE, files |-> (name :> text) @@ dir.files]

\* Lines 325-334: one iteration of the writing loop.
WriteHeader ==
    /\ mpc = "write"
    /\ idx <= Len(requested_versions)
    /\ LET version == requested_versions[idx]
           missingFuncs == missing_funcs(allsyms, syms[version])
           headerData == generate_header_string(syms[version], missingFuncs)
       IN  /\ version_headers' = write_file(version_headers, header_name(version), headerData)
           /\ passed' = Append(passed, [version |-> version, syms |-> syms[version],
                                        missingFuncs |-> missingFuncs])
    /\ idx' = idx + 1
    /\ UNCHANGED <<mpc, requested_versions, syms, allsyms>>
    /\ UNCHANGED <<bvars, xvars>>

\* The end of main.
Finish ==
    /\ mpc = "write"
    /\ idx > Len(requested_versions)
    /\ mpc' = "done"
    /\ UNCHANGED <<requested_versions, idx, syms, allsyms, version_headers, passed>>
    /\ UNCHANGED <<bvars, xvars>>

\* ------------------------------------------------------------------------
\* Specifications
\* ------------------------------------------------------------------------

BIdle ==
    /\ bpc = "idle"
    /\ bversion = Version(<<2, 16>>)
    /\ glibcDir = [exists |-> FALSE, head |-> "", modified |-> {}, untracked |-> {}]
    /\ builds = [t \in {Version_str(v) : v \in BVersions} |-> NoBuild]
    /\ pidx = 1
    /\ bret = ""
    /\ blog = <<>>
    /\ cached = FALSE
    /\ markerLog = [t \in {Version_str(v) : v \in BVersions} |-> <<>>]
    /\ calls = 0

MIdle ==
    /\ mpc = "off"
    /\ requested_versions = <<>>
    /\ idx = 1
    /\ syms = <<>>
    /\ allsyms = {}
    /\ version_headers = NoHeaders
    /\ passed = <<>>

XIdle ==
    /\ xpc = "off"
    /\ xfolder = <<>>
    /\ xversion = Version(<<2, 16>>)
    /\ xdata = <<>>
    /\ xresult = [raised |-> FALSE, dupes |-> <<>>, syms |-> <<>>]

\* The steps of get_glibc_binaries and apply_patches.
BuildStep ==
    \/ Clone \/ CloneFails \/ CloneSkip \/ MarkerFound \/ MarkerMissing
    \/ Reset \/ Clean \/ Checkout \/ GitFails
    \/ PatchSkip \/ PatchApply \/ PatchFails \/ PatchDone
    \/ BuildDir \/ InstallDir \/ Configure \/ Make \/ BuildFails
    \/ MakeInstall \/ MakeInstallFails \/ WriteMarker \/ Return

\* ---- Spec: one run of main, from an empty builds directory ----

Init ==
    /\ BIdle
    /\ XIdle
    /\ mpc = "start"
    /\ requested_versions \in RequestedLists
    /\ idx = 1
    /\ syms = <<>>
    /\ allsyms = {}
    /\ version_headers \in {NoHeaders, EarlierHeaders}
    /\ passed = <<>>

Next ==
    \/ CheckPrograms \/ CheckProgramsFails \/ RemoveHeaders
    \/ Provision \/ ProvisionRaises \/ Extract \/ ExtractRaises
    \/ Union \/ WriteHeader \/ Finish
    \/ BuildStep

Spec == Init /\ [][Next]_vars

\* ---- SpecBuild: any sequence of calls of get_glibc_binaries ----

MaxCalls == 3

\* A caller calls get_glibc_binaries(version) once the previous call is over.
BuildCall ==
    /\ bpc \in {"idle", "returned", "raised"}
    /\ calls < MaxCalls
    /\ \E version \in BVersions : Enter(version)
    /\ calls' = calls + 1
    /\ UNCHANGED <<glibcDir, builds, markerLog>>
    /\ UNCHANGED <<mvars, xvars>>

InitBuild == BIdle /\ MIdle /\ XIdle

NextBuild == BuildCall \/ BuildStep

SpecBuild == InitBuild /\ [][NextBuild]_vars

\* ---- SpecPatches: apply_patches on a fresh checkout of any version ----

\* The versions apply_patches is run for: the supported ones, and versions
\* below, between and above them.
PVersions ==
    {SUPPORTED_VERSIONS[i] : i \in 1..Len(SUPPORTED_VERSIONS)}
    \cup {Version(<<2, 4>>), Version(<<2, 9, 1>>), Version(<<2, 10>>), Version(<<2, 16, 1>>),
          Version(<<2, 28>>), Version(<<3, 0>>), Version(<<1, 9>>)}

InitPatches ==
    /\ MIdle
    /\ XIdle
    /\ bpc = "patch"
    /\ bversion \in PVersions
    /\ glibcDir = [exists |-> TRUE, head |-> Version_str(bversion), modified |-> {}, untracked |-> {}]
    /\ builds = [t \in {Version_str(v) : v \in BVersions} |-> NoBuild]
    /\ pidx = 1
    /\ bret = ""
    /\ blog = <<"reset", "clean", "checkout">>
    /\ cached = FALSE
    /\ markerLog = [t \in {Version_str(v) : v \in BVersions} |-> <<>>]
    /\ calls = 1

NextPatches == PatchSkip \/ PatchApply \/ PatchFails \/ PatchDone

SpecPatches == InitPatches /\ [][NextPatches]_vars

\* ---- SpecExtract: extract_versions_from_installed_folder on any folder ----

InitExtract == BIdle /\ MIdle /\ XInit

NextExtract == XRead \/ XMerge

SpecExtract == InitExtract /\ [][NextExtract]_vars

\* ------------------------------------------------------------------------
\* Properties
\* ------------------------------------------------------------------------

\* A version as one number, major first: the order of (major, minor, patch).
VersionKey(v) == (v.major * 100 + v.minor) * 100 + v.patch

\* A range contains v when v is neither below its low end nor above its high end.
RangeContains(lo, v, hi) ==
    VersionKey(lo) <= VersionKey(v) /\ VersionKey(v) <= VersionKey(hi)

\* The patches among the first n entries of the table whose range contains v.
PatchesInRange(n, v) ==
    {patches_table[i].patch :
        i \in {j \in 1..n : RangeContains(patches_table[j].lo, v, patches_table[j].hi)}}

\* C9: at every point of apply_patches the patches applied to the work tree
\* are exactly the patches of the table entries passed so far whose range
\* contains the version, both ends of a range included; when apply_patches
\* returns, they are all the patches whose range contains the version.
C9_AppliesExactlyTheMatchingPatches ==
    /\ glibcDir.modified = PatchesInRange(pidx - 1, bversion)
    /\ bpc = "builddir" => glibcDir.modified = PatchesInRange(Len(patches_table), bversion)

\* C9 witness: apply_patches has returned for 2.16, which is both ends of the
\* range of hvsep-remove.diff and lies inside two overlapping ranges.
C9_Witness ==
    /\ bpc = "builddir"
    /\ bversion = Version(<<2, 16>>)
    /\ glibcDir.modified =
         {"fix_obstack_compat.diff", "fix_bad_version_checks.diff", "hvsep-remove.diff"}

\* The build steps of a call that builds, in the order of the code.
FullBuild ==
    <<"reset", "clean", "checkout", "patch", "builddir", "installdir",
      "configure", "make", "install", "marker">>

\* C10: the marker of a version exists only if one call checked the version
\* out into a reset and cleaned tree, applied its patches, configured, made
\* and installed it, in that order, into an emptied install directory; a call
\* that finds the marker performs no build step and returns the install
\* directory; a call that raises leaves no marker for its version.
C10_MarkerOnlyAfterCompleteBuild ==
    /\ \A v \in BVersions :
         LET b == builds[Version_str(v)]
         IN  b.marker =>
               /\ b.installDir = "installed"
               /\ b.installFresh
               /\ b.installSrc.head = Version_str(v)
               /\ b.installSrc.patches = PatchesInRange(Len(patches_table), v)
               /\ markerLog[Version_str(v)] \in {FullBuild, <<"clone">> \o FullBuild}
    /\ (bpc = "returned" /\ cached) => (blog = <<>> /\ bret = installDirOf(bversion))
    /\ bpc = "returned" => builds[Version_str(bversion)].marker
    /\ bpc = "raised" => ~builds[Version_str(bversion)].marker
    /\ bpc = "checkout" => (glibcDir.modified = {} /\ glibcDir.untracked = {})

\* C10 witness: 2.20 was built and marked after a call for 2.16 had failed in
\* make install, leaving the patches of 2.16 in the work tree.
C10_Witness ==
    /\ builds["glibc-2.20"].marker
    /\ builds["glibc-2.16"].installDir = "partial"
    /\ bpc = "returned"
    /\ bversion = Version(<<2, 20>>)
    /\ ~cached

\* The symbol name and the version token of an export line name@@token.
NameOf(line) == SubSeq(line, 1, str_find(line, "@@", 1) - 1)

TokenOf(line) == SubSeq(line, str_find(line, "@@", 1) + 2, Len(line))

\* Some name occurs in data with two different version tokens.
HasConflict(data) ==
    LET name == [i \in 1..Len(data) |-> NameOf(data[i])]
        token == [i \in 1..Len(data) |-> TokenOf(data[i])]
    IN  \E i, j \in 1..Len(data) : name[i] = name[j] /\ token[i] # token[j]

\* table maps every name of data to the token of each of its lines.
TableOf(data, table) ==
    LET name == [i \in 1..Len(data) |-> NameOf(data[i])]
        token == [i \in 1..Len(data) |-> TokenOf(data[i])]
    IN  /\ DOMAIN table = {name[i] : i \in 1..Len(data)}
        /\ \A i \in 1..Len(data) : table[name[i]] = token[i]

\* C3: the extraction raises exactly when some name occurs among the surviving
\* lines with two different version tokens; otherwise the table it returns
\* maps every surviving name to its only token.
C3_RaisesIffConflictingVersions ==
    xpc = "done" =>
        /\ xresult.raised <=> HasConflict(xdata)
        /\ ~xresult.raised => TableOf(xdata, xresult.syms)

\* C3 witness: a name survives twice with the same token and a table is returned.
C3_Witness ==
    /\ xpc = "done"
    /\ ~xresult.raised
    /\ \E i, j \in 1..Len(xdata) : i < j /\ xdata[i] = xdata[j]

\* Name n occurs in data with two different version tokens.
ConflictingName(data, n) ==
    \E i, j \in 1..Len(data) :
        /\ NameOf(data[i]) = n
        /\ NameOf(data[j]) = n
        /\ TokenOf(data[i]) # TokenOf(data[j])

\* C4 as claimed: on a conflict every (name, version) pair observed for a
\* conflicting name is in the reported list.
C4_EveryConflictingPairReported ==
    (xpc = "done" /\ xresult.raised) =>
        \A i \in 1..Len(xdata) :
            ConflictingName(xdata, NameOf(xdata[i])) =>
                \E k \in 1..Len(xresult.dupes) : xresult.dupes[k] = xdata[i]

\* The token of the first line of data that has name n.
FirstToken(data, n) ==
    TokenOf(data[CHOOSE i \in 1..Len(data) :
                    /\ NameOf(data[i]) = n
                    /\ \A j \in 1..(i - 1) : NameOf(data[j]) # n])

\* C4 as amended: on a conflict the reported list is, in order, every surviving
\* line whose version differs from the version of the first surviving line of
\* the same name; the first-seen pair of a conflicting name is not in it.
C4_ReportsAllButFirstSeen ==
    (xpc = "done" /\ xresult.raised) =>
        xresult.dupes =
            SelectSeq(xdata, LAMBDA l : TokenOf(l) # FirstToken(xdata, NameOf(l)))

\* C4 witness: a conflict with more than one line reported.
C4_Witness ==
    /\ xpc = "done"
    /\ xresult.raised
    /\ Len(xresult.dupes) >= 2

\* The target version lies in the window 2.17 .. 2.27.
InLibrtWindow(v) == RangeContains(Version(<<2, 17>>), v, Version(<<2, 27>>))

\* The lines of the entries of folder outside the set dropped, object by
\* object in the order the objects are listed.
RECURSIVE LinesKept(_, _, _)
LinesKept(folder, files, dropped) ==
    IF files = <<>> THEN <<>>
    ELSE LET mine == SelectSeq(folder, LAMBDA e : e.file = Head(files) /\ e \notin dropped)
         IN  [i \in 1..Len(mine) |-> mine[i].line] \o LinesKept(folder, Tail(files), dropped)

\* The entries of the objects that are linker scripts, which are not read.
ScriptEntries(folder) ==
    {folder[i] : i \in {j \in 1..Len(folder) : basename(folder[j].file) \in linker_scripts}}

\* The entry is one of the five clock_ symbols in a librt object.
MovedSymbolInLibrt(e) ==
    /\ startswith(basename(e.file), "librt")
    /\ NameOf(e.line) \in librt_moved_to_libc

\* The entry is in a librt object and its name starts with one of the five names.
MovedPrefixInLibrt(e) ==
    /\ startswith(basename(e.file), "librt")
    /\ \E n \in librt_moved_to_libc : startswith(NameOf(e.line), n)

\* clock_gettime is exported by libc at 2.17 and by librt objects at 2.2.5,
\* and the folder holds nothing else.
ClockInBoth(folder) ==
    /\ \A i \in 1..Len(folder) :
         \/ folder[i] = [file |-> "lib/libc-2.17.so", line |-> "clock_gettime@@GLIBC_2.17"]
         \/ folder[i] = [file |-> "lib/librt-2.17.so", line |-> "clock_gettime@@GLIBC_2.2.5"]
    /\ \E i, j \in 1..Len(folder) : folder[i].file # folder[j].file

\* In the window, a clock_ symbol of libc and librt gives one definition.
ClockInBothGivesOne ==
    (xpc = "done" /\ InLibrtWindow(xversion) /\ ClockInBoth(xfolder)) =>
        /\ ~xresult.raised
        /\ xresult.syms = ("clock_gettime" :> "GLIBC_2.17")

\* C5 as claimed: for a version in 2.17 .. 2.27 the extraction drops the
\* entries of the five clock_ symbols in librt objects and no other entry (of
\* an object that is read); outside the window it drops none.
C5_DropsOnlyTheFiveSymbols ==
    /\ xpc \in {"merge", "done"} =>
         xdata = LinesKept(xfolder, find_so(xfolder),
                    ScriptEntries(xfolder) \cup
                    {xfolder[i] : i \in {j \in 1..Len(xfolder) :
                        InLibrtWindow(xversion) /\ MovedSymbolInLibrt(xfolder[j])}})
    /\ ClockInBothGivesOne

\* C5 as amended: for a version in 2.17 .. 2.27 the extraction drops the
\* entries of librt objects whose name starts with one of the five names (the
\* five symbols, and any symbol whose name extends one of them) and no other
\* entry; outside the window it drops none.
C5_DropsNamesStartingWithTheFive ==
    /\ xpc \in {"merge", "done"} =>
         xdata = LinesKept(xfolder, find_so(xfolder),
                    ScriptEntries(xfolder) \cup
                    {xfolder[i] : i \in {j \in 1..Len(xfolder) :
                        InLibrtWindow(xversion) /\ MovedPrefixInLibrt(xfolder[j])}})
    /\ ClockInBothGivesOne

\* C5 witness: at the upper end of the window, clock_gettime of libc and of
\* librt at different versions gives a table.
C5_Witness ==
    /\ xpc = "done"
    /\ xversion = Version(<<2, 27>>)
    /\ ClockInBoth(xfolder)
    /\ ~xresult.raised

\* The binding lines of a header, as the claims describe them.
RealBinding(s, token) == "__asm__(\".symver " \o s \o "," \o s \o "@" \o token \o "\");"

PoisonBinding(s) ==
    "__asm__(\".symver " \o s \o "," \o s
    \o "@GLIBC_WRAP_ERROR_SYMBOL_NOT_PRESENT_IN_REQUESTED_VERSION\");"

\* The lines of header that contain a '.symver s,s@' binding of name s.
BindingLinesOf(header, s) ==
    {k \in 1..Len(header) : str_find(header[k], ".symver " \o s \o "," \o s \o "@", 1) # 0}

\* The requested versions, and the union of the names of their tables.
Requested == {requested_versions[i] : i \in 1..Len(requested_versions)}

RequestedUnion == UNION {DOMAIN syms[v] : v \in Requested \cap DOMAIN syms}

\* The header file of version v in version_headers.
HeaderOf(v) == version_headers.files["force_link_glibc_" \o version_as_str(v) \o ".h"]

HasHeader(v) == ("force_link_glibc_" \o version_as_str(v) \o ".h") \in DOMAIN version_headers.files

\* C1: after the extraction of every requested version has succeeded, every
\* header written has, for every name of the global union, exactly one binding
\* line: the real binding to the version's own token when the version has the
\* name, the poison binding when it has not; at the end of main every
\* requested version has its header.
C1_ExactlyOneBindingPerUnionSymbol ==
    mpc \in {"write", "done"} =>
        \A v \in Requested :
            /\ mpc = "done" => HasHeader(v)
            /\ HasHeader(v) =>
                 \A s \in RequestedUnion :
                     /\ Cardinality(BindingLinesOf(HeaderOf(v), s)) = 1
                     /\ \A k \in BindingLinesOf(HeaderOf(v), s) :
                            IF s \in DOMAIN syms[v]
                            THEN HeaderOf(v)[k] = RealBinding(s, syms[v][s])
                            ELSE HeaderOf(v)[k] = PoisonBinding(s)

\* C1 witness: main has ended for two versions, and the header of 2.16 holds a
\* real binding of read and a poison binding of write.
C1_Witness ==
    /\ mpc = "done"
    /\ Requested = BVersions
    /\ \E k \in 1..Len(HeaderOf(Version(<<2, 16>>))) :
           HeaderOf(Version(<<2, 16>>))[k] = RealBinding("read", "GLIBC_2.2.5")
    /\ \E k \in 1..Len(HeaderOf(Version(<<2, 16>>))) :
           HeaderOf(Version(<<2, 16>>))[k] = PoisonBinding("write")

\* C2: allsyms, once computed, is the union of the names of the tables of all
\* requested versions, and every missing set handed to the synthesizer is
\* that union minus the names of the version's own table, so it is disjoint
\* from them, for whichever version.
C2_MissingIsUnionMinusOwn ==
    /\ mpc \in {"write", "done"} => allsyms = RequestedUnion
    /\ \A k \in 1..Len(passed) :
         /\ passed[k].syms = syms[passed[k].version]
         /\ passed[k].missingFuncs = RequestedUnion \ DOMAIN syms[passed[k].version]
         /\ passed[k].missingFuncs \cap DOMAIN passed[k].syms = {}

\* C2 witness: two versions, each of which lacks a symbol the other has: 2.16
\* lacks write and 2.20 lacks pthread_once.
C2_Witness ==
    /\ mpc = "done"
    /\ Len(passed) = 2
    /\ passed[1].version = Version(<<2, 16>>)
    /\ passed[2].version = Version(<<2, 20>>)
    /\ "write" \in passed[1].missingFuncs
    /\ "pthread_once" \in passed[2].missingFuncs

\* The guards the claim gives a symbol, the outermost first.
GuardsOf(s) ==
    (IF s \in pthread_symbols_used_as_weak_in_libstdcpp
     THEN <<"#ifndef _GLIBCXX_SHARED">> ELSE <<>>)
    \o (IF s \in pthread_symbols_used_as_weak_in_libgcc
        THEN <<"#ifndef IN_LIBGCC2">> ELSE <<>>)
    \o (IF s \in (pthread_funcs_in_libc_so \cup pthread_symbols_used_as_weak_in_libgcc
                  \cup pthread_symbols_used_as_weak_in_libstdcpp)
        THEN <<"#ifdef _REENTRANT">> ELSE <<>>)

\* Line k of header is the binding of s, right under the guards of s and
\* nothing else, and followed by an #endif for each of them.
GuardedAt(header, k, s) ==
    LET n == Len(GuardsOf(s))
    IN  /\ k - n - 1 >= 1
        /\ k + n <= Len(header)
        /\ SubSeq(header, k - n, k - 1) = GuardsOf(s)
        /\ ~startswith(header[k - n - 1], "#if")
        /\ \A j \in 1..n : header[k + j] = "#endif"

\* C6: in every header written, the binding of every symbol of the table lies
\* under exactly the guards its memberships give it (_GLIBCXX_SHARED outermost,
\* then IN_LIBGCC2, then _REENTRANT), each closed by an #endif after the
\* binding, a symbol of no set is unguarded, and every #if of the header has
\* its #endif.
C6_GuardsFollowMembership ==
    mpc \in {"write", "done"} =>
        \A v \in Requested :
            HasHeader(v) =>
                /\ \A s \in DOMAIN syms[v] :
                       \E k \in 1..Len(HeaderOf(v)) :
                           /\ HeaderOf(v)[k] = RealBinding(s, syms[v][s])
                           /\ GuardedAt(HeaderOf(v), k, s)
                /\ Cardinality({k \in 1..Len(HeaderOf(v)) : startswith(HeaderOf(v)[k], "#if")})
                     = Cardinality({k \in 1..Len(HeaderOf(v)) : HeaderOf(v)[k] = "#endif"})

\* C6 witness: a header with pthread_once under three nested guards, after the
\* unguarded pthread_cond_signal.
C6_Witness ==
    /\ mpc = "done"
    /\ \E v \in Requested :
         /\ HasHeader(v)
         /\ \E k \in 1..Len(HeaderOf(v)) :
              /\ k + 7 <= Len(HeaderOf(v))
              /\ SubSeq(HeaderOf(v), k, k + 7) =
                   << RealBinding("pthread_cond_signal", "GLIBC_2.3.2"),
                      "#ifndef _GLIBCXX_SHARED", "#ifndef IN_LIBGCC2", "#ifdef _REENTRANT",
                      RealBinding("pthread_once", "GLIBC_2.2.5"),
                      "#endif", "#endif", "#endif" >>

\* C7 as claimed: when the provisioning of one requested version fails, the
\* headers of the other requested versions, whose provisioning and extraction
\* succeeded, are written.
C7_OtherVersionsStillWritten ==
    mpc = "aborted: provisioning" =>
        \A v \in DOMAIN syms : v # bversion => HasHeader(v)

\* C7 as amended: a failure while provisioning any requested version aborts
\* the whole run: main ends on the exception and no header is written for any
\* requested version, those already provisioned and extracted included.
C7_ProvisioningFailureAbortsTheRun ==
    mpc = "aborted: provisioning" =>
        /\ bpc = "raised"
        /\ DOMAIN version_headers.files = {}

\* C7 witness: 2.20 was provisioned and extracted, the provisioning of 2.16
\* failed, and 2.20 has no header.
C7_Witness ==
    /\ mpc = "aborted: provisioning"
    /\ bversion = Version(<<2, 16>>)
    /\ Version(<<2, 20>>) \in DOMAIN syms
    /\ ~HasHeader(Version(<<2, 20>>))

\* The text is a whole header for the names of the union.
WholeHeader(header) ==
    /\ Len(header) >= 4
    /\ header[1] = "#if !defined(SET_GLIBC_LINK_VERSIONS_HEADER) && !defined(__ASSEMBLER__)"
    /\ header[2] = "#define SET_GLIBC_LINK_VERSIONS_HEADER"
    /\ header[Len(header) - 1] = "#endif"
    /\ header[Len(header)] = ""
    /\ \A s \in RequestedUnion : BindingLinesOf(header, s) # {}

====
